---- MODULE Spec2Model ----
(***************************************************************************)
(* Verification model of pynnmap-report: the binned error matrix of the    *)
(* continuous and categorical accuracy formatters, the paired observed /   *)
(* predicted data frame, and the report drivers behind the two commands.   *)
(***************************************************************************)
EXTENDS Integers, Sequences, FiniteSets, TLC

\* ------------------------------------------------------------------------
\* Bounds of the model
\* ------------------------------------------------------------------------
\* largest number of classes (bins / codes) of an attribute
MaxN == 3
\* largest sum of the COUNT column of the error matrix file of an attribute
MaxRecords == 3
\* largest number of rows of the observed and the predicted frame together
MaxRows == 3
\* largest number of entries of include_in_report
MaxInclude == 2
\* largest number of attributes a formatter makes pages for
MaxAttrs == 2
\* largest number of rows of the paired frame given to draw_scatterplot
MaxPoints == 3
\* largest observed or predicted value of those rows
MaxValue == 1

VARIABLES
  \* --- build_error_matrix of one attribute
  em_pc,            \* "read": the files are being read; "done"; "raised"
  formatter,        \* the class whose build_error_matrix runs
  attr_codes,       \* attr.codes (categorical) / the bins (continuous)
  fuzzy_classes,    \* attr.fuzzy_classes
  error_matrix_df,  \* COUNT of the attribute per (observed, predicted)
  arr,              \* the array of the table, before it is styled
  xwalk,            \* the code-to-index lookup
  classifiers,      \* the dict handed to Classifier
  em_raised,        \* the exception build_error_matrix raised, or ""
  fuzzy_cells,      \* the list fuzzy_cells of the categorical formatter
  ts                \* the BACKGROUND commands added to the table style

VARIABLES
  \* --- the report and old-report commands
  rep_pc,            \* "cli", "construct", "run", "build", "cleanup",
                     \* "done" (returned) or "aborted" (an exception left)
  command,           \* "report" or "old-report"
  accuracy_assessment_report,  \* the parameter: "" or the name of the PDF
  include_in_report, \* the parameter used by the old report
  missing_files,     \* the input files that do not exist
  aa_report,         \* a LemmaAccuracyReport was made and asked to create
  todo,              \* formatter classes still to construct
  formatters,        \* the list `formatters`
  ran,               \* formatters whose run_formatter was called, in order
  sub_stories,       \* what each of those calls returned
  story,             \* self.story
  doc_built,         \* the document builder was called (the PDF written)
  doc_story,         \* the story handed to it
  cleaned,           \* formatters whose clean_up was called, in order
  printed,           \* classes whose 'Skipping' message was printed
  rep_raised         \* the exception that left the command, or ""

report_vars == <<rep_pc, command, accuracy_assessment_report, include_in_report,
                 missing_files, aa_report, todo, formatters, ran, sub_stories, story,
                 doc_built, doc_story, cleaned, printed, rep_raised>>

VARIABLES
  \* --- run_formatter / clean_up of the two accuracy page formatters
  fig_pc,        \* "start", "local", "regional", "riemann", "pages",
                 \* "returned", "raised", "cleaned"
  fig_formatter, \* the class of the formatter
  attr_list,     \* field names of the attributes the metadata filter gave
  image_files,   \* self.image_files
  disk,          \* the files in the working directory
  pages          \* the pages built so far: attribute and image files used

fig_vars == <<fig_pc, fig_formatter, attr_list, image_files, disk, pages>>

VARIABLES
  \* --- chart_func.draw_scatterplot
  chart_pc,      \* "read", "drawn" or "raised"
  chart_df,      \* the paired frame: rows with <attr>_O and <attr>_P
  kde,           \* the kde keyword
  scatter,       \* the x and y series given to axes.scatter
  xlabel,        \* label of the X axis
  ylabel,        \* label of the Y axis
  rmse,          \* the quantity written as 'Normalized RMSE'
  chart_raised   \* the exception raised, or ""

chart_vars == <<chart_pc, chart_df, kde, scatter, xlabel, ylabel, rmse,
                chart_raised>>

VARIABLES
  \* --- build_paired_dataframe
  pair_pc,      \* "read": the frames are being filled; "returned"; "raised"
  obs_df,       \* observed frame: its columns and its rows
  prd_df,       \* predicted frame
  attr_fields,  \* the requested attribute field(s): a string or a list
  merged_df,    \* the frame returned
  pair_raised,  \* the exception raised, or ""
  pair_check    \* the check that raised: "columns", "values", "length"

pair_vars == <<pair_pc, obs_df, prd_df, attr_fields, merged_df, pair_raised,
               pair_check>>

em_vars == <<em_pc, formatter, attr_codes, fuzzy_classes, error_matrix_df,
             arr, xwalk, classifiers, em_raised, fuzzy_cells, ts>>

\* what an action of one machine leaves alone: the other machines
EMRest == <<pair_vars, report_vars, fig_vars, chart_vars>>
PairRest == <<em_vars, report_vars, fig_vars, chart_vars>>
ReportRest == <<em_vars, pair_vars, fig_vars, chart_vars>>
FigRest == <<em_vars, pair_vars, report_vars, chart_vars>>
ChartRest == <<em_vars, pair_vars, report_vars, fig_vars>>

\* ------------------------------------------------------------------------
\* Generic helpers
\* ------------------------------------------------------------------------
Idx(n) == 0 .. (n - 1)

RECURSIVE SumOver(_, _)
SumOver(f, S) ==
  IF S = {} THEN 0
  ELSE LET x == CHOOSE y \in S : TRUE IN f[x] + SumOver(f, S \ {x})

RECURSIVE Gcd(_, _)
Gcd(a, b) == IF b = 0 THEN a ELSE Gcd(b, a % b)

RangeOf(s) == { s[k] : k \in 1 .. Len(s) }

\* ------------------------------------------------------------------------
\* Cells of the object array `arr`: strings, integer counts and floats.
\* A float is kept as the exact fraction num/den in lowest terms, or nan.
\* ------------------------------------------------------------------------
StrCell(s) == [kind |-> "str", text |-> s, num |-> 0, den |-> 1]
LabelCell(c) == [kind |-> "label", text |-> "", num |-> c, den |-> 1]
IntCell(k) == [kind |-> "int", text |-> "", num |-> k, den |-> 1]
NaN == [kind |-> "nan", text |-> "", num |-> 0, den |-> 1]
Float(n, d) ==
  LET g == Gcd(n, d)
  IN [kind |-> "float", text |-> "", num |-> n \div g, den |-> d \div g]
Zero == Float(0, 1)
EmptyCell == StrCell("")

\* x * 100.0
Times100(x) == IF x.kind = "nan" THEN NaN ELSE Float(100 * x.num, x.den)

\* numpy true division of two numpy integers / floats: 0/0 is nan (a
\* RuntimeWarning, not an exception); k/0 with k > 0 is inf, which the
\* model folds into nan since no caller keeps it.
np_true_divide(num, den) == IF den = 0 THEN NaN ELSE Float(num, den)

\* np.divide(num, den, out=zeros, where=den != 0), one element
np_divide_unguarded(num, den) == np_true_divide(num, den)
np_divide_where(num, den) == IF den # 0 THEN Float(num, den) ELSE Zero

\* calc_percent(num, denom): np.where(denom, num / denom * 100.0, 0.0)
calc_percent_unguarded(num, denom) == Times100(np_true_divide(num, denom))
calc_percent(num, denom) ==
  IF denom # 0 THEN Times100(np_true_divide(num, denom)) ELSE Zero

\* ------------------------------------------------------------------------
\* build_error_matrix: the numeric part shared by the two formatters
\* ------------------------------------------------------------------------
\* Positions of the (n_cells + 4) x (n_cells + 4) array, n_cells = n + 1
ArrCells(n) == (0 .. (n + 4)) \X (0 .. (n + 4))
ClassCells(n) == Idx(n) \X Idx(n)

\* pd.crosstab(index=obs, columns=prd, values=COUNT, aggfunc=sum,
\* margins=True, dropna=False).values: rows are observed classes, columns
\* are predicted classes, the last row and the last column are the margins.
crosstab(df, n) ==
  [rc \in (0 .. n) \X (0 .. n) |->
     LET r == rc[1]
         c == rc[2]
     IN IF r < n /\ c < n THEN df[<<r, c>>]
        ELSE IF r < n THEN SumOver([j \in Idx(n) |-> df[<<r, j>>]], Idx(n))
        ELSE IF c < n THEN SumOver([i \in Idx(n) |-> df[<<i, c>>]], Idx(n))
        ELSE SumOver(df, ClassCells(n))]

\* np.diag(err_matrix)[:-1]
diag(err, n) == [i \in Idx(n) |-> err[<<i, i>>]]

\* row_sums = err_matrix[-1, :-1] (the margin row: one total per predicted
\* class) and col_sums = err_matrix[:-1, -1] (the margin column: one total
\* per observed class)
row_sums_swapped(err, n) == [i \in Idx(n) |-> err[<<i, n>>]]
row_sums(err, n) == [j \in Idx(n) |-> err[<<n, j>>]]
col_sums(err, n) == [i \in Idx(n) |-> err[<<i, n>>]]

pct_r(err, n) ==
  [j \in Idx(n) |-> np_divide_where(diag(err, n)[j], row_sums(err, n)[j])]
pct_c(err, n) ==
  [i \in Idx(n) |-> np_divide_where(diag(err, n)[i], col_sums(err, n)[i])]

\* diag.sum() / row_sums.sum() * 100.0
pct_total(err, n) ==
  Times100(np_true_divide(SumOver(diag(err, n), Idx(n)),
                          SumOver(row_sums(err, n), Idx(n))))

\* The fixed +/-1 window: the list handed to Classification for class i
WindowTooNarrow(i, len) ==
  IF i = 0 THEN <<i, i + 1>>
  ELSE <<i - 1, i>>
WindowClassification(i, len) ==
  IF i = 0 THEN <<i, i + 1>>
  ELSE IF i = len - 1 THEN <<i - 1, i>>
  ELSE <<i - 1, i, i + 1>>

\* numpy integer indexing along an axis of length n: -n .. n-1 are valid,
\* negative indices count from the end
np_valid_index(k, n) == (0 - n) <= k /\ k < n
np_index(k, n) == (k + n) % n

\* em_data[i, f_classes].sum() and em_data[f_classes, i].sum()
RECURSIVE SumList(_, _)
SumList(g, f) ==
  IF f = <<>> THEN 0 ELSE g[Head(f)] + SumList(g, Tail(f))

r_correct(err, n, f_classes, i) ==
  SumList([k \in RangeOf(f_classes) |-> err[<<i, np_index(k, n)>>]], f_classes)
c_correct(err, n, f_classes, i) ==
  SumList([k \in RangeOf(f_classes) |-> err[<<np_index(k, n), i>>]], f_classes)

r_totals(err, n) ==
  [i \in Idx(n) |-> SumOver([j \in Idx(n) |-> err[<<i, j>>]], Idx(n))]
c_totals(err, n) ==
  [j \in Idx(n) |-> SumOver([i \in Idx(n) |-> err[<<i, j>>]], Idx(n))]
em_total(err, n) == SumOver([rc \in ClassCells(n) |-> err[rc]], ClassCells(n))

\* Classifier.fuzzy_classification(i): the list given for class i
fuzzy_classification(clf, i) == clf[i]

\* incorrect, accumulated over the loop on range(len(diag))
incorrect(err, n, clf) ==
  SumOver([i \in Idx(n) |->
             r_totals(err, n)[i] - r_correct(err, n, fuzzy_classification(clf, i), i)],
          Idx(n))

\* The exception the fuzzy loop raises, "" when it completes
FuzzyLoopRaises(n, clf) ==
  IF \E i \in Idx(n) : i \notin DOMAIN clf THEN "KeyError"
  ELSE IF \E i \in Idx(n) : \E k \in RangeOf(clf[i]) : ~np_valid_index(k, n)
       THEN "IndexError"
  ELSE ""

\* bin_labels: the class labels followed by the three summary labels
bin_labels(labels, n) ==
  [k \in 0 .. (n + 2) |->
     IF k < n THEN LabelCell(labels[k + 1])
     ELSE IF k = n THEN StrCell("Total")
     ELSE IF k = n + 1 THEN StrCell("% correct")
     ELSE StrCell("% fuzzy correct")]

\* The array `arr` once the labels, the counts and the percent correct
\* cells are assigned; the percent fuzzy correct cells are still ""
ArrPercentCorrect(err, n, labels) ==
  [rc \in ArrCells(n) |->
     LET r == rc[1]
         c == rc[2]
     IN \* arr[2, 0] and arr[0, 2]
        IF r = 2 /\ c = 0 THEN StrCell("Observed class")
        ELSE IF r = 0 /\ c = 2 THEN StrCell("Predicted class")
        \* arr[1, 2:] = bin_labels ; arr[2:, 1] = bin_labels.transpose()
        ELSE IF r = 1 /\ c >= 2 THEN bin_labels(labels, n)[c - 2]
        ELSE IF c = 1 /\ r >= 2 THEN bin_labels(labels, n)[r - 2]
        \* arr[2:-2, 2:-2] = err_matrix
        ELSE IF r \in 2 .. (n + 2) /\ c \in 2 .. (n + 2)
          THEN IntCell(err[<<r - 2, c - 2>>])
        \* arr[-2, 2 : n_cells + 1] = pct_r * 100.0
        ELSE IF r = n + 3 /\ c \in 2 .. (n + 1)
          THEN Times100(pct_r(err, n)[c - 2])
        \* arr[2 : n_cells + 1, -2] = pct_c * 100.0
        ELSE IF c = n + 3 /\ r \in 2 .. (n + 1)
          THEN Times100(pct_c(err, n)[r - 2])
        \* arr[-2, -2]
        ELSE IF r = n + 3 /\ c = n + 3 THEN pct_total(err, n)
        ELSE EmptyCell]

\* The array `arr` once the percent fuzzy correct cells are assigned too
ArrFuzzyCorrect(a, err, n, clf) ==
  [rc \in ArrCells(n) |->
     LET r == rc[1]
         c == rc[2]
     IN \* arr[-1, 2 : em_size + 2] = calc_percent(c_correct, c_totals)
        IF r = n + 4 /\ c \in 2 .. (n + 1)
          THEN calc_percent(c_correct(err, n, fuzzy_classification(clf, c - 2), c - 2),
                            c_totals(err, n)[c - 2])
        \* arr[2 : em_size + 2, -1] = calc_percent(r_correct, r_totals)
        ELSE IF c = n + 4 /\ r \in 2 .. (n + 1)
          THEN calc_percent(r_correct(err, n, fuzzy_classification(clf, r - 2), r - 2),
                            r_totals(err, n)[r - 2])
        \* arr[-1, -1] = calc_percent(total - incorrect, total)
        ELSE IF r = n + 4 /\ c = n + 4
          THEN calc_percent(em_total(err, n) - incorrect(err, n, clf), em_total(err, n))
        ELSE a[rc]]

\* ------------------------------------------------------------------------
\* Classifiers of the continuous formatter and of the categorical formatter
\* ------------------------------------------------------------------------
\* for i in range(len(diag)): classifiers[i] = Classification(i, ..., window)
window_classifiers(n) == [i \in Idx(n) |-> WindowClassification(i, n)]

\* list(codes) for a set of small non-negative ints: CPython keeps such a
\* set in a table of 8 slots, a code c in slot c % 8 (hash(c) = c), and
\* iterates the slots in order.  The inputs of the model never put two
\* codes in one slot.
RECURSIVE SortedBy(_, _)
SortedBy(S, key) ==
  IF S = {} THEN <<>>
  ELSE LET m == CHOOSE x \in S : \A y \in S : key[x] <= key[y]
       IN <<m>> \o SortedBy(S \ {m}, key)

list_of_set_sorted(S) == SortedBy(S, [c \in S |-> c])
list_of_set(S) == SortedBy(S, [c \in S |-> c % 8])

\* codes = {x.original_class for x in attr.fuzzy_classes}
original_codes(fz) == { fz[k].original_class : k \in 1 .. Len(fz) }

\* xwalk = {c: i for i, c in enumerate(list(codes))}
build_xwalk(fz) ==
  LET lst == list_of_set(original_codes(fz))
  IN [c \in original_codes(fz) |-> (CHOOSE k \in 1 .. Len(lst) : lst[k] = c) - 1]

\* d[orig].append(fuzzy) over attr.fuzzy_classes, in list order
RECURSIVE fuzzy_lists(_, _, _)
fuzzy_lists(fz, xw, orig) ==
  IF fz = <<>> THEN <<>>
  ELSE (IF xw[Head(fz).original_class] = orig
          THEN <<xw[Head(fz).fuzzy_class]>> ELSE <<>>)
       \o fuzzy_lists(Tail(fz), xw, orig)

\* classifiers[k] = Classification(k, f"{k}", v) for k, v in d.items()
declared_classifiers(fz, xw) ==
  [k \in { xw[c] : c \in DOMAIN xw } |-> fuzzy_lists(fz, xw, k)]

\* xwalk[elem.fuzzy_class] raises KeyError for a code that is nobody's
\* original_class
XwalkRaises(fz) ==
  IF \E k \in 1 .. Len(fz) : fz[k].fuzzy_class \notin original_codes(fz)
    THEN "KeyError" ELSE ""

\* ------------------------------------------------------------------------
\* Shading of the table: the BACKGROUND commands added to the table style,
\* each for one cell (column, row) of the table
\* ------------------------------------------------------------------------
DarkGray == "#aaaaaa"
LightGray == "#dddddd"
Background(col, row, colour) == [col |-> col, row |-> row, colour |-> colour]

\* fuzzy_cells of the window branch of the categorical formatter
RECURSIVE window_fuzzy_cells_from(_, _)
window_fuzzy_cells_from(i, len) ==
  IF i >= len THEN <<>>
  ELSE (IF i = 0 THEN <<<<i, i + 1>>>>
        ELSE IF i = len - 1 THEN <<<<i, i - 1>>>>
        ELSE <<<<i, i - 1>>, <<i, i + 1>>>>)
       \o window_fuzzy_cells_from(i + 1, len)
window_fuzzy_cells(len) == window_fuzzy_cells_from(0, len)

\* fuzzy_cells of the declared branch: (orig, fuzzy) when they differ
RECURSIVE declared_fuzzy_cells(_, _)
declared_fuzzy_cells(fz, xw) ==
  IF fz = <<>> THEN <<>>
  ELSE (IF xw[Head(fz).original_class] # xw[Head(fz).fuzzy_class]
          THEN <<<<xw[Head(fz).original_class], xw[Head(fz).fuzzy_class]>>>>
          ELSE <<>>)
       \o declared_fuzzy_cells(Tail(fz), xw)

\* for i in range(2, len(diag) + 2): ts.add("BACKGROUND", (i, i), ...)
diagonal_shading(n) ==
  [k \in 1 .. n |-> Background(k + 1, k + 1, DarkGray)]

\* for i in range(2, len(diag) + 1): (i, i + 1) and (i + 1, i)
RECURSIVE neighbour_shading(_, _)
neighbour_shading(i, n) ==
  IF i >= n + 1 THEN <<>>
  ELSE <<Background(i, i + 1, LightGray), Background(i + 1, i, LightGray)>>
       \o neighbour_shading(i + 1, n)

attribute_shading(n) == diagonal_shading(n) \o neighbour_shading(2, n)

\* for c, r in fuzzy_cells: cell = (c + 2, r + 2)
fuzzy_cell_as_row_col(fc) == Background(fc[2] + 2, fc[1] + 2, LightGray)
fuzzy_cell(fc) == Background(fc[1] + 2, fc[2] + 2, LightGray)

categorical_shading(n, cells) ==
  diagonal_shading(n)
  \o [k \in 1 .. Len(cells) |-> fuzzy_cell(cells[k])]
  \o <<Background(-2, -2, DarkGray), Background(-1, -1, LightGray)>>

\* the colour a cell (col, row) of a table of `size` rows and columns ends
\* up with: that of the last command for it, "" when there is none
table_index(k, size) == IF k < 0 THEN k + size ELSE k
RECURSIVE background(_, _, _, _)
background(style, col, row, size) ==
  IF style = <<>> THEN ""
  ELSE LET last == style[Len(style)]
       IN IF table_index(last.col, size) = col /\ table_index(last.row, size) = row
            THEN last.colour
            ELSE background(SubSeq(style, 1, Len(style) - 1), col, row, size)

\* ------------------------------------------------------------------------
\* Inputs of build_error_matrix
\* ------------------------------------------------------------------------
FuzzyClass(o, f) == [original_class |-> o, fuzzy_class |-> f]

\* attr.codes of a categorical attribute, in ascending code order: the
\* contiguous codes 1..n, or the same with the last code replaced by 8
CodeLists(n) ==
  { [k \in 1 .. n |-> k],
    [k \in 1 .. n |-> IF k = n THEN 8 ELSE k] }

\* every code names itself only
SelfOnly(codes) == [k \in 1 .. Len(codes) |-> FuzzyClass(codes[k], codes[k])]
\* the first two codes name each other, every code names itself
FirstTwo(codes) ==
  SelfOnly(codes) \o
  (IF Len(codes) >= 2
     THEN <<FuzzyClass(codes[1], codes[2]), FuzzyClass(codes[2], codes[1])>>
     ELSE <<>>)
\* the first code also names the last one, and not the other way round
FirstToLast(codes) ==
  SelfOnly(codes) \o
  (IF Len(codes) >= 2 THEN <<FuzzyClass(codes[1], codes[Len(codes)])>> ELSE <<>>)
\* the first code names the second but not itself
NotItself(codes) ==
  IF Len(codes) >= 2
    THEN <<FuzzyClass(codes[1], codes[2])>> \o Tail(SelfOnly(codes))
    ELSE SelfOnly(codes)

\* the last code declares nothing, and the first code names it
Undeclared(codes) ==
  IF Len(codes) >= 2
    THEN SubSeq(SelfOnly(codes), 1, Len(codes) - 1)
         \o <<FuzzyClass(codes[1], codes[Len(codes)])>>
    ELSE SelfOnly(codes)

\* attr.fuzzy_classes: none declared, or one of the declarations above
FuzzyDeclarations(codes) ==
  { <<>>, SelfOnly(codes), FirstTwo(codes), FirstToLast(codes), NotItself(codes),
    Undeclared(codes) }

\* the error matrix file with no record of the attribute
NoRecords(n) == [rc \in ClassCells(n) |-> 0]

\* ------------------------------------------------------------------------
\* The error matrix machine: read the files, then build_error_matrix
\* ------------------------------------------------------------------------
n_bins == Len(attr_codes)

EMInit ==
  /\ em_pc = "read"
  /\ formatter \in {"AttributeAccuracyFormatter", "CategoricalAccuracyFormatter"}
  /\ \E n \in 1 .. MaxN :
       /\ attr_codes \in (IF formatter = "CategoricalAccuracyFormatter"
                            THEN CodeLists(n) ELSE {[k \in 1 .. n |-> k]})
       /\ error_matrix_df = NoRecords(n)
  /\ fuzzy_classes \in (IF formatter = "CategoricalAccuracyFormatter"
                          THEN FuzzyDeclarations(attr_codes) ELSE {<<>>})
  /\ arr = <<>>
  /\ xwalk = <<>>
  /\ classifiers = <<>>
  /\ em_raised = ""
  /\ fuzzy_cells = <<>>
  /\ ts = <<>>

\* pd.read_csv(error_matrix_accuracy_file): one more record of the
\* attribute, with its OBSERVED_CLASS, PREDICTED_CLASS and COUNT
ReadErrorMatrixRow ==
  /\ em_pc = "read"
  /\ \E rc \in ClassCells(n_bins) :
       \E count \in 1 .. (MaxRecords - em_total(error_matrix_df, n_bins)) :
          error_matrix_df' =
            [error_matrix_df EXCEPT ![rc] = error_matrix_df[rc] + count]
  /\ UNCHANGED <<em_pc, formatter, attr_codes, fuzzy_classes, arr, xwalk,
                 classifiers, em_raised, fuzzy_cells, ts>>
  /\ UNCHANGED EMRest

\* The part shared by the two build_error_matrix: the percent correct
\* cells, then the fuzzy loop over the classifier `clf` and the percent
\* fuzzy correct cells.  An exception leaves arr as far as it was filled.
FinishErrorMatrix(xw, clf, cells, shading) ==
  LET n == n_bins
      err == crosstab(error_matrix_df, n)
      exc == FuzzyLoopRaises(n, clf)
  IN /\ xwalk' = xw
     /\ classifiers' = clf
     /\ em_raised' = exc
     /\ IF exc # ""
          THEN /\ em_pc' = "raised"
               /\ arr' = ArrPercentCorrect(err, n, attr_codes)
               /\ fuzzy_cells' = <<>>
               /\ ts' = <<>>
          ELSE /\ em_pc' = "done"
               /\ fuzzy_cells' = cells
               /\ ts' = shading
               /\ arr' = ArrFuzzyCorrect(ArrPercentCorrect(err, n, attr_codes),
                                         err, n, clf)
     /\ UNCHANGED <<formatter, attr_codes, fuzzy_classes, error_matrix_df>>

\* AttributeAccuracyFormatter.build_error_matrix
AttributeBuildErrorMatrix ==
  /\ em_pc = "read"
  /\ formatter = "AttributeAccuracyFormatter"
  /\ FinishErrorMatrix(<<>>, window_classifiers(n_bins), <<>>,
                       attribute_shading(n_bins))
  /\ UNCHANGED EMRest

\* CategoricalAccuracyFormatter.build_error_matrix
CategoricalBuildErrorMatrix ==
  /\ em_pc = "read"
  /\ formatter = "CategoricalAccuracyFormatter"
  /\ IF Len(fuzzy_classes) > 0
       THEN IF XwalkRaises(fuzzy_classes) # ""
              THEN /\ em_pc' = "raised"
                   /\ em_raised' = XwalkRaises(fuzzy_classes)
                   /\ arr' = ArrPercentCorrect(crosstab(error_matrix_df, n_bins),
                                               n_bins, attr_codes)
                   /\ UNCHANGED <<formatter, attr_codes, fuzzy_classes,
                                  error_matrix_df, xwalk, classifiers,
                                  fuzzy_cells, ts>>
              ELSE FinishErrorMatrix(
                     build_xwalk(fuzzy_classes),
                     declared_classifiers(fuzzy_classes, build_xwalk(fuzzy_classes)),
                     declared_fuzzy_cells(fuzzy_classes, build_xwalk(fuzzy_classes)),
                     categorical_shading(
                       n_bins,
                       declared_fuzzy_cells(fuzzy_classes, build_xwalk(fuzzy_classes))))
       ELSE FinishErrorMatrix(<<>>, window_classifiers(n_bins),
                              window_fuzzy_cells(n_bins),
                              categorical_shading(n_bins, window_fuzzy_cells(n_bins)))
  /\ UNCHANGED EMRest

EMNext ==
  \/ ReadErrorMatrixRow
  \/ AttributeBuildErrorMatrix
  \/ CategoricalBuildErrorMatrix

\* ------------------------------------------------------------------------
\* utilities.build_paired_dataframe
\* ------------------------------------------------------------------------
\* a missing value (NaN / None) of a data frame
NULL == -1
join_field == "ID"
PlotIds == {1, 2}

\* _list_like(x): x if it is a list or a tuple, else [x]
StrArg(x) == [type |-> "str", items |-> <<x>>]
ListArg(l) == [type |-> "list", items |-> l]
list_like_always_first(x) == <<x.items[1]>>
list_like(x) ==
  IF x.type = "list" THEN x.items ELSE <<x.items[1]>>

\* columns = [join_field] + _list_like(attr_fields)
wanted_columns(attrs) == <<join_field>> \o list_like(ListArg(attrs))

\* set(cols).issubset(df.columns)
columns_in_df(df, cols) == RangeOf(cols) \subseteq df.columns

\* df[attr].isnull().sum() == 0
valid_attr_values(df, attr) ==
  Cardinality({ k \in 1 .. Len(df.rows) : df.rows[k][attr] = NULL }) = 0

\* merge_num == len(df1) or merge_num == len(df2)
same_len_ids_both(merged, df1, df2) ==
  Len(merged.rows) = Len(df1.rows) /\ Len(merged.rows) = Len(df2.rows)
same_len_ids(merged, df1, df2) ==
  Len(merged.rows) = Len(df1.rows) \/ Len(merged.rows) = Len(df2.rows)

\* obs_df[columns]
subset_columns(df, cols) ==
  [columns |-> RangeOf(cols),
   rows |-> [k \in 1 .. Len(df.rows) |-> [c \in RangeOf(cols) |-> df.rows[k][c]]]]

\* A column of the merged frame: the key keeps its name, a column that
\* both frames have gets the suffix of its side
Col(name, suffix) == <<name, suffix>>
merged_columns(left, right, on) ==
  {Col(on, "")}
  \cup { Col(c, IF c \in right.columns THEN "_O" ELSE "") : c \in left.columns \ {on} }
  \cup { Col(c, IF c \in left.columns THEN "_P" ELSE "") : c \in right.columns \ {on} }

merged_row_swapped(l, r, left, right, on) ==
  [mc \in merged_columns(left, right, on) |->
     IF mc[1] = on THEN l[on]
     ELSE IF mc[2] = "_P" THEN l[mc[1]]
     ELSE IF mc[2] = "_O" THEN r[mc[1]]
     ELSE IF mc[1] \in left.columns THEN l[mc[1]] ELSE r[mc[1]]]
merged_row(l, r, left, right, on) ==
  [mc \in merged_columns(left, right, on) |->
     IF mc[1] = on THEN l[on]
     ELSE IF mc[2] = "_O" THEN l[mc[1]]
     ELSE IF mc[2] = "_P" THEN r[mc[1]]
     ELSE IF mc[1] \in left.columns THEN l[mc[1]] ELSE r[mc[1]]]

\* the rows of right that match one row of left, in the order of right
RECURSIVE matches_of(_, _, _, _, _)
matches_of(l, rrows, left, right, on) ==
  IF rrows = <<>> THEN <<>>
  ELSE (IF Head(rrows)[on] = l[on]
          THEN <<merged_row(l, Head(rrows), left, right, on)>> ELSE <<>>)
       \o matches_of(l, Tail(rrows), left, right, on)

RECURSIVE inner_join_rows(_, _, _, _)
inner_join_rows(lrows, left, right, on) ==
  IF lrows = <<>> THEN <<>>
  ELSE matches_of(Head(lrows), right.rows, left, right, on)
       \o inner_join_rows(Tail(lrows), left, right, on)

\* obs_df.merge(prd_df, on=join_field, suffixes=("_O", "_P")): an inner
\* join that keeps the order of the left keys
merge(left, right, on) ==
  [columns |-> merged_columns(left, right, on),
   rows |-> inner_join_rows(left.rows, left, right, on)]

\* The first check of build_paired_dataframe that fails: the exception
\* and the check, <<"", "">> when the merged frame is returned
first_attr_failing(obs, prd, attrs) ==
  \E k \in 1 .. Len(attrs) :
     ~valid_attr_values(obs, attrs[k]) \/ ~valid_attr_values(prd, attrs[k])

paired_outcome_obs_only(obs, prd, fields) ==
  LET attrs == list_like(fields)
      columns == wanted_columns(attrs)
  IN IF ~columns_in_df(obs, columns)
       THEN <<"NameError", "columns">>
     ELSE IF ~columns_in_df(prd, columns)
       THEN <<"KeyError", "values">>
     ELSE IF first_attr_failing(obs, prd, attrs)
       THEN <<"ValueError", "values">>
     ELSE IF ~same_len_ids(merge(subset_columns(obs, columns),
                                 subset_columns(prd, columns), join_field),
                           obs, prd)
       THEN <<"ValueError", "length">>
     ELSE <<"", "">>
paired_outcome(obs, prd, fields) ==
  LET attrs == list_like(fields)
      columns == wanted_columns(attrs)
  IN IF ~columns_in_df(obs, columns) \/ ~columns_in_df(prd, columns)
       THEN <<"NameError", "columns">>
     ELSE IF first_attr_failing(obs, prd, attrs)
       THEN <<"ValueError", "values">>
     ELSE IF ~same_len_ids(merge(subset_columns(obs, columns),
                                 subset_columns(prd, columns), join_field),
                           obs, prd)
       THEN <<"ValueError", "length">>
     ELSE <<"", "">>

\* --- inputs
AllColumns == {"ID", "A", "B"}
\* the call: the requested fields and the columns of the two frames
Call(fields, oc, pc) == [fields |-> fields, obs |-> oc, prd |-> pc]
Calls ==
  { Call(ListArg(<<"A", "B">>), AllColumns, AllColumns),
    Call(ListArg(<<"A", "B">>), AllColumns, {"ID", "A"}),
    Call(ListArg(<<"A", "B">>), {"A", "B"}, AllColumns),
    Call(StrArg("A"), AllColumns, {"ID", "A"}),
    Call(StrArg("A"), {"ID", "A"}, {"A"}) }
AttrValues(c) ==
  IF c = "ID" THEN PlotIds ELSE IF c = "A" THEN {NULL, 1, 2} ELSE {NULL, 1}
\* the rows a frame with the given columns can hold
RowsOf(cols) == { row \in [cols -> {NULL, 1, 2}] : \A c \in cols : row[c] \in AttrValues(c) }
EmptyFrame(cols) == [columns |-> cols, rows |-> <<>>]

PairInit ==
  /\ pair_pc = "read"
  /\ \E call \in Calls :
       /\ obs_df = EmptyFrame(call.obs)
       /\ prd_df = EmptyFrame(call.prd)
       /\ attr_fields = call.fields
  /\ merged_df = EmptyFrame({})
  /\ pair_raised = ""
  /\ pair_check = ""

\* one more row of the observed frame handed to build_paired_dataframe
ObservedRow ==
  /\ pair_pc = "read"
  /\ Len(obs_df.rows) + Len(prd_df.rows) < MaxRows
  /\ \E row \in RowsOf(obs_df.columns) :
       obs_df' = [obs_df EXCEPT !.rows = Append(@, row)]
  /\ UNCHANGED <<pair_pc, prd_df, attr_fields, merged_df, pair_raised, pair_check>>
  /\ UNCHANGED PairRest

\* one more row of the predicted frame
PredictedRow ==
  /\ pair_pc = "read"
  /\ Len(obs_df.rows) + Len(prd_df.rows) < MaxRows
  /\ \E row \in RowsOf(prd_df.columns) :
       prd_df' = [prd_df EXCEPT !.rows = Append(@, row)]
  /\ UNCHANGED <<pair_pc, obs_df, attr_fields, merged_df, pair_raised, pair_check>>
  /\ UNCHANGED PairRest

\* build_paired_dataframe(obs_df, prd_df, join_field, attr_fields)
BuildPairedDataframe ==
  /\ pair_pc = "read"
  /\ LET outcome == paired_outcome(obs_df, prd_df, attr_fields)
         columns == wanted_columns(list_like(attr_fields))
     IN /\ pair_raised' = outcome[1]
        /\ pair_check' = outcome[2]
        /\ IF outcome[1] = ""
             THEN /\ pair_pc' = "returned"
                  /\ merged_df' = merge(subset_columns(obs_df, columns),
                                        subset_columns(prd_df, columns), join_field)
             ELSE /\ pair_pc' = "raised"
                  /\ merged_df' = merged_df
  /\ UNCHANGED <<obs_df, prd_df, attr_fields>>
  /\ UNCHANGED PairRest

PairNext ==
  \/ ObservedRow
  \/ PredictedRow
  \/ BuildPairedDataframe

\* ------------------------------------------------------------------------
\* The report commands and the two create_accuracy_report
\* ------------------------------------------------------------------------
\* formatters = [IntroductionFormatter(...), ..., ReferencesFormatter()]
CurrentFormatters ==
  <<"IntroductionFormatter", "AttributeAccuracyFormatter",
    "CategoricalAccuracyFormatter", "SpeciesAccuracyFormatter",
    "DataDictionaryFormatter", "ReferencesFormatter">>

\* report_type of the old report; include_in_report is drawn from these
\* three (regional_accuracy is built like local_accuracy)
Diagnostics == {"local_accuracy", "species_accuracy", "vegclass_accuracy"}
report_type(d) ==
  IF d = "local_accuracy" THEN "LocalAccuracyFormatter"
  ELSE IF d = "species_accuracy" THEN "SpeciesAccuracyFormatter"
  ELSE "VegetationClassFormatter"

\* the old report: introduction, the include_in_report entries, data
\* dictionary, references
OldFormatters(include) ==
  <<"IntroductionFormatter">>
  \o [k \in 1 .. Len(include) |-> report_type(include[k])]
  \o <<"DataDictionaryFormatter", "ReferencesFormatter">>

\* _required of each class, as parameter file names
required(f) ==
  IF f = "IntroductionFormatter" THEN {"report_metadata_file"}
  ELSE IF f = "SpeciesAccuracyFormatter"
    THEN {"species_accuracy_file", "stand_metadata_file"}
  ELSE IF f = "DataDictionaryFormatter" THEN {"stand_metadata_file"}
  ELSE IF f = "VegetationClassFormatter"
    THEN {"vegclass_errmatrix_file", "stand_metadata_file"}
  ELSE {}

\* ReportFormatter.check_missing_files: MissingConstraintError, its message
\* extended by 'Skipping <class>', when a required file is missing
check_missing_files(f, missing) ==
  IF required(f) \cap missing # {} THEN "MissingConstraintError" ELSE ""

\* What constructing a formatter raises, "" when it returns
construct(f, missing) ==
  IF f \in {"AttributeAccuracyFormatter", "CategoricalAccuracyFormatter"}
    \* pd.read_csv(parameter_parser.error_matrix_accuracy_file)
    THEN (IF "error_matrix_accuracy_file" \in missing
            THEN "FileNotFoundError" ELSE "")
  ELSE IF f = "LocalAccuracyFormatter"
    \* self.check_missing_files(files) is called with an argument the
    \* method does not take, under an except clause naming
    \* report_formatter.MissingConstraintError, which does not exist
    THEN "AttributeError"
  ELSE check_missing_files(f, missing)

\* what run_formatter returns: None or a list of flowables
None == [none |-> TRUE, items |-> <<>>]
Flowables(f) ==
  [none |-> FALSE,
   items |-> <<[by |-> f, flowable |-> "PageBreak"],
               [by |-> f, flowable |-> "Table"]>>]
Returns(f) == {None, Flowables(f)}

\* if sub_story is not None: self.story.extend(sub_story[:])
extend_always(st, sub_story) ==
  st \o (IF sub_story.none THEN <<[by |-> "None", flowable |-> "None"]>>
         ELSE sub_story.items)
extend(st, sub_story) ==
  IF ~sub_story.none THEN st \o sub_story.items ELSE st

ReportInit ==
  /\ rep_pc = "cli"
  /\ command \in {"report", "old-report"}
  /\ accuracy_assessment_report \in {"", "report.pdf"}
  /\ include_in_report \in
       (IF command = "old-report"
          THEN { l \in UNION { [1 .. k -> Diagnostics] : k \in 0 .. MaxInclude } :
                   \A i, j \in 1 .. Len(l) : i # j => l[i] # l[j] }
          ELSE {<<>>})
  /\ missing_files \in
       SUBSET (IF command = "old-report"
                 THEN {"report_metadata_file", "stand_metadata_file",
                       "species_accuracy_file", "vegclass_errmatrix_file"}
                 ELSE {"report_metadata_file", "stand_metadata_file",
                       "species_accuracy_file", "error_matrix_accuracy_file"})
  /\ aa_report = FALSE
  /\ todo = <<>>
  /\ formatters = <<>>
  /\ ran = <<>>
  /\ sub_stories = <<>>
  /\ story = <<>>
  /\ doc_built = FALSE
  /\ doc_story = <<>>
  /\ cleaned = <<>>
  /\ printed = <<>>
  /\ rep_raised = ""

\* where create_accuracy_report goes once the formatters are constructed
clean_up_first(fs) == "cleanup"
AfterConstruct(fs) ==
  IF Len(fs) > 0 THEN "run" ELSE "build"

\* cli/report.py report(): the report is created only for a non-empty
\* accuracy_assessment_report
create_always(path) == TRUE
create_wanted(path) == path # ""

Report ==
  /\ rep_pc = "cli"
  /\ command = "report"
  /\ IF create_wanted(accuracy_assessment_report)
       THEN /\ rep_pc' = "construct"
            /\ aa_report' = TRUE
            /\ todo' = CurrentFormatters
       ELSE rep_pc' = "done" /\ UNCHANGED <<aa_report, todo>>
  /\ UNCHANGED <<command, accuracy_assessment_report, include_in_report,
                 missing_files, formatters, ran, sub_stories, story, doc_built,
                 doc_story, cleaned, printed, rep_raised>>
  /\ UNCHANGED ReportRest

\* cli/old_report.py old_report()
OldReport ==
  /\ rep_pc = "cli"
  /\ command = "old-report"
  /\ IF create_wanted(accuracy_assessment_report)
       THEN /\ rep_pc' = "construct"
            /\ aa_report' = TRUE
            /\ todo' = OldFormatters(include_in_report)
       ELSE rep_pc' = "done" /\ UNCHANGED <<aa_report, todo>>
  /\ UNCHANGED <<command, accuracy_assessment_report, include_in_report,
                 missing_files, formatters, ran, sub_stories, story, doc_built,
                 doc_story, cleaned, printed, rep_raised>>
  /\ UNCHANGED ReportRest

\* the next element of the list display of the current report: an
\* exception of a constructor leaves create_accuracy_report
Construct ==
  /\ rep_pc = "construct"
  /\ command = "report"
  /\ LET f == Head(todo)
         exc == construct(f, missing_files)
     IN IF exc = ""
          THEN /\ formatters' = Append(formatters, f)
               /\ todo' = Tail(todo)
               /\ rep_pc' = IF Tail(todo) = <<>>
                              THEN AfterConstruct(Append(formatters, f))
                              ELSE "construct"
               /\ rep_raised' = rep_raised
          ELSE /\ rep_pc' = "aborted"
               /\ rep_raised' = exc
               /\ UNCHANGED <<formatters, todo>>
  /\ UNCHANGED <<command, accuracy_assessment_report, include_in_report,
                 missing_files, aa_report, ran, sub_stories, story, doc_built, doc_story,
                 cleaned, printed>>
  /\ UNCHANGED ReportRest

\* what the old report does with the exception of a constructor: "skip"
\* (print the message and go on), or "abort"
old_handler_catches_all(exc) == "skip"
old_handler(exc) ==
  IF exc = "MissingConstraintError" THEN "skip" ELSE "abort"

\* the next try/except of the old report around a constructor
OldConstruct ==
  /\ rep_pc = "construct"
  /\ command = "old-report"
  /\ LET f == Head(todo)
         exc == construct(f, missing_files)
         fs == IF exc = "" THEN Append(formatters, f) ELSE formatters
     IN IF exc = "" \/ old_handler(exc) = "skip"
          THEN /\ formatters' = fs
               /\ printed' = IF exc = "" THEN printed ELSE Append(printed, f)
               /\ todo' = Tail(todo)
               /\ rep_pc' = IF Tail(todo) = <<>> THEN AfterConstruct(fs)
                              ELSE "construct"
               /\ rep_raised' = rep_raised
          ELSE /\ rep_pc' = "aborted"
               /\ rep_raised' = exc
               /\ UNCHANGED <<formatters, todo, printed>>
  /\ UNCHANGED <<command, accuracy_assessment_report, include_in_report,
                 missing_files, aa_report, ran, sub_stories, story, doc_built, doc_story,
                 cleaned>>
  /\ UNCHANGED ReportRest

\* one turn of `for formatter in formatters: sub_story = run_formatter()`
\* (the same loop in both reports): the call returns, or raises
RunLoop ==
  /\ rep_pc = "run"
  /\ LET f == formatters[Len(ran) + 1]
     IN /\ ran' = Append(ran, f)
        /\ \/ \E sub_story \in Returns(f) :
                /\ sub_stories' = Append(sub_stories, sub_story)
                /\ story' = extend(story, sub_story)
                /\ rep_pc' = IF Len(ran) + 1 = Len(formatters) THEN "build" ELSE "run"
                /\ rep_raised' = rep_raised
           \/ /\ rep_pc' = "aborted"
              /\ rep_raised' = "Exception"
              /\ UNCHANGED <<sub_stories, story>>
  /\ UNCHANGED <<command, accuracy_assessment_report, include_in_report,
                 missing_files, aa_report, todo, formatters, doc_built, doc_story, cleaned,
                 printed>>
  /\ UNCHANGED ReportRest

RunFormatter == command = "report" /\ RunLoop
OldRunFormatter == command = "old-report" /\ RunLoop

AfterBuild == IF Len(formatters) > 0 THEN "cleanup" ELSE "done"

\* doc.build(self.story, canvasmaker=PageNumCanvas)
BuildDocument ==
  /\ rep_pc = "build"
  /\ command = "report"
  /\ doc_built' = TRUE
  /\ doc_story' = story
  /\ rep_pc' = AfterBuild
  /\ UNCHANGED <<command, accuracy_assessment_report, include_in_report,
                 missing_files, aa_report, todo, formatters, ran, sub_stories, story,
                 cleaned, printed, rep_raised>>
  /\ UNCHANGED ReportRest

\* if len(self.story) > 0: pdf.build(self.story, ...)
old_builds(st) == Len(st) > 0

OldBuildDocument ==
  /\ rep_pc = "build"
  /\ command = "old-report"
  /\ IF old_builds(story)
       THEN doc_built' = TRUE /\ doc_story' = story
       ELSE UNCHANGED <<doc_built, doc_story>>
  /\ rep_pc' = AfterBuild
  /\ UNCHANGED <<command, accuracy_assessment_report, include_in_report,
                 missing_files, aa_report, todo, formatters, ran, sub_stories, story,
                 cleaned, printed, rep_raised>>
  /\ UNCHANGED ReportRest

\* one turn of `for formatter in formatters: formatter.clean_up()`
CleanLoop ==
  /\ rep_pc = "cleanup"
  /\ cleaned' = Append(cleaned, formatters[Len(cleaned) + 1])
  /\ rep_pc' = IF Len(cleaned) + 1 = Len(formatters) THEN "done" ELSE "cleanup"
  /\ UNCHANGED <<command, accuracy_assessment_report, include_in_report,
                 missing_files, aa_report, todo, formatters, ran, sub_stories, story,
                 doc_built, doc_story, printed, rep_raised>>
  /\ UNCHANGED ReportRest

CleanUp == command = "report" /\ CleanLoop
OldCleanUp == command = "old-report" /\ CleanLoop

ReportNext ==
  \/ Report
  \/ OldReport
  \/ Construct
  \/ OldConstruct
  \/ RunFormatter
  \/ OldRunFormatter
  \/ BuildDocument
  \/ OldBuildDocument
  \/ CleanUp
  \/ OldCleanUp

\* ------------------------------------------------------------------------
\* Figures and pages of AttributeAccuracyFormatter and
\* CategoricalAccuracyFormatter
\* ------------------------------------------------------------------------
FieldNames == {"BA", "TPH", "QMD"}

\* attr.field_name.lower()
lower(name) ==
  IF name = "BA" THEN "ba" ELSE IF name = "TPH" THEN "tph" ELSE "qmd"

\* a file name: what precedes, and what follows, the lower-cased field name
FileName(prefix, name, suffix) == <<prefix, name, suffix>>

\* "{}.png".format(attr.field_name.lower())
local_image_fn(attr) == FileName("", lower(attr), ".png")
\* "{}_area.png".format(attr.field_name.lower())
regional_image_fn(attr) == FileName("", lower(attr), "_area.png")
\* "hex_{}_{}.png".format(resolution, attr.field_name.lower())
riemann_image_fn(attr, resolution) ==
  FileName(IF resolution = 10 THEN "hex_10_"
           ELSE IF resolution = 30 THEN "hex_30_" ELSE "hex_50_",
           lower(attr), ".png")

\* the list of file names each create_*_figures returns, every file being
\* saved on the way
create_no_figures(as) == <<>>
create_local_figures(as) == [k \in 1 .. Len(as) |-> local_image_fn(as[k])]
create_regional_figures(as) == [k \in 1 .. Len(as) |-> regional_image_fn(as[k])]
\* for resolution in (10, 30, 50): for attr in attrs: files.append(fn)
create_riemann_figures(as) ==
  [k \in 1 .. Len(as) |-> riemann_image_fn(as[k], 10)]
  \o [k \in 1 .. Len(as) |-> riemann_image_fn(as[k], 30)]
  \o [k \in 1 .. Len(as) |-> riemann_image_fn(as[k], 50)]

\* the Image flowables of the page of an attribute
page_images(f, attr) ==
  IF f = "AttributeAccuracyFormatter"
    THEN <<local_image_fn(attr), regional_image_fn(attr),
           riemann_image_fn(attr, 10), riemann_image_fn(attr, 30),
           riemann_image_fn(attr, 50)>>
    ELSE <<regional_image_fn(attr)>>

\* a file of the working directory that is no figure
OtherFile == FileName("", "report", ".pdf")

FigInit ==
  /\ fig_pc = "start"
  /\ fig_formatter \in {"AttributeAccuracyFormatter", "CategoricalAccuracyFormatter"}
  /\ attr_list \in { l \in UNION { [1 .. k -> FieldNames] : k \in 0 .. MaxAttrs } :
                   \A i, j \in 1 .. Len(l) : i # j => l[i] # l[j] }
  /\ image_files = <<>>
  /\ disk \in SUBSET {OtherFile, local_image_fn("BA")}
  /\ pages = <<>>

\* run_formatter up to create_figures
RunFormatterStart ==
  /\ fig_pc = "start"
  /\ fig_pc' = IF fig_formatter = "AttributeAccuracyFormatter"
                 THEN "local" ELSE "regional"
  /\ UNCHANGED <<fig_formatter, attr_list, image_files, disk, pages>>
  /\ UNCHANGED FigRest

\* the files a call of create_*_figures leaves behind it
Saved(files) == disk \cup RangeOf(files)

\* local_figures = create_local_figures(merged_df, attrs)
\* self.image_files.extend(local_figures)
CreateLocalFigures ==
  /\ fig_pc = "local"
  /\ image_files' = image_files \o create_local_figures(attr_list)
  /\ disk' = Saved(create_local_figures(attr_list))
  /\ fig_pc' = "regional"
  /\ UNCHANGED <<fig_formatter, attr_list, pages>>
  /\ UNCHANGED FigRest

\* regional_figures = create_regional_figures(...), in both formatters
CreateRegionalFigures ==
  /\ fig_pc = "regional"
  /\ image_files' = image_files \o create_regional_figures(attr_list)
  /\ disk' = Saved(create_regional_figures(attr_list))
  /\ fig_pc' = IF fig_formatter = "AttributeAccuracyFormatter"
                 THEN "riemann"
                 ELSE IF Len(attr_list) > 0 THEN "pages" ELSE "returned"
  /\ UNCHANGED <<fig_formatter, attr_list, pages>>
  /\ UNCHANGED FigRest

\* riemann_figures = create_riemann_figures(self.riemann_dir, self.k, attrs)
CreateRiemannFigures ==
  /\ fig_pc = "riemann"
  /\ image_files' = image_files \o create_riemann_figures(attr_list)
  /\ disk' = Saved(create_riemann_figures(attr_list))
  /\ fig_pc' = IF Len(attr_list) > 0 THEN "pages" ELSE "returned"
  /\ UNCHANGED <<fig_formatter, attr_list, pages>>
  /\ UNCHANGED FigRest

\* page = self.build_flowable_page(attr) for the next attribute: the page
\* is built, or build_error_matrix raises and run_formatter with it
BuildFlowablePage ==
  /\ fig_pc = "pages"
  /\ LET attr == attr_list[Len(pages) + 1]
     IN \/ /\ pages' = Append(pages, [attr |-> attr,
                                      images |-> page_images(fig_formatter, attr)])
           /\ fig_pc' = IF Len(pages) + 1 = Len(attr_list) THEN "returned" ELSE "pages"
        \/ /\ fig_pc' = "raised"
           /\ pages' = pages
  /\ UNCHANGED <<fig_formatter, attr_list, image_files, disk>>
  /\ UNCHANGED FigRest

\* clean_up: for fn in self.image_files: if os.path.exists(fn): os.remove(fn)
FigCleanUp ==
  /\ fig_pc = "returned"
  /\ disk' = disk \ RangeOf(image_files)
  /\ fig_pc' = "cleaned"
  /\ UNCHANGED <<fig_formatter, attr_list, image_files, pages>>
  /\ UNCHANGED FigRest

FigNext ==
  \/ RunFormatterStart
  \/ CreateLocalFigures
  \/ CreateRegionalFigures
  \/ CreateRiemannFigures
  \/ BuildFlowablePage
  \/ FigCleanUp

\* ------------------------------------------------------------------------
\* chart_func.draw_scatterplot and ObservedPredictedScatterplot
\* ------------------------------------------------------------------------
\* a row of the paired frame: its <attr>_O and <attr>_P values
PairedRow(o, p) == [O |-> o, P |-> p]

\* obs, prd = df[name + "_O"], df[name + "_P"]
series(df, col) == [k \in 1 .. Len(df) |-> df[k][col]]

SumSeq(x) == SumOver(x, DOMAIN x)

\* the orders an argsort can put n points in
Orders(n) == { f \in [1 .. n -> 1 .. n] : \A i, j \in 1 .. n : i # j => f[i] # f[j] }

\* gaussian_kde has no estimate for points on one line (fewer than three
\* points included): the covariance matrix is singular
collinear(x, y) ==
  \A i, j, k \in DOMAIN x :
     (x[j] - x[i]) * (y[k] - y[i]) = (x[k] - x[i]) * (y[j] - y[i])

\* Scatterplot._symbolize_series: the series, sorted by density under kde
symbolize_series(x, y, use_kde, idx) ==
  IF use_kde
    THEN <<[k \in DOMAIN x |-> x[idx[k]]], [k \in DOMAIN y |-> y[idx[k]]]>>
    ELSE <<x, y>>

\* Scatterplot._draw(x, y, z): axes.scatter(x, y, ...)
base_draw(x, y) == [k \in DOMAIN x |-> [X |-> x[k], Y |-> y[k]]]

\* statistics.rmse(x, y) / x.mean(): the root of sse / n, over sum / n
normalized_rmse(x, y) ==
  [sse |-> SumSeq([k \in DOMAIN x |-> (x[k] - y[k]) * (x[k] - y[k])]),
   n |-> Len(x),
   mean_of |-> SumSeq(x)]

\* ObservedPredictedScatterplot._draw(x, y, z): super()._draw(y, x, z) and
\* the statistics of (x, y)
draw_as_given(x, y) ==
  [scatter |-> base_draw(x, y), rmse |-> normalized_rmse(x, y)]
draw(x, y) ==
  [scatter |-> base_draw(y, x), rmse |-> normalized_rmse(x, y)]

ChartInit ==
  /\ chart_pc = "read"
  /\ chart_df = <<>>
  /\ kde \in BOOLEAN
  /\ scatter = <<>>
  /\ xlabel = ""
  /\ ylabel = ""
  /\ rmse = <<>>
  /\ chart_raised = ""

\* one more row of the paired frame
ReadPairedRow ==
  /\ chart_pc = "read"
  /\ Len(chart_df) < MaxPoints
  /\ \E o, p \in 0 .. MaxValue : chart_df' = Append(chart_df, PairedRow(o, p))
  /\ UNCHANGED <<chart_pc, kde, scatter, xlabel, ylabel, rmse, chart_raised>>
  /\ UNCHANGED ChartRest

\* draw_scatterplot(df, attr, output_file, kde=...):
\* ObservedPredictedScatterplot(obs, prd)(**kwargs)
DrawScatterplot ==
  /\ chart_pc = "read"
  /\ LET obs == series(chart_df, "O")
         prd == series(chart_df, "P")
     IN IF Len(chart_df) = 0
          \* get_global_limits: min() of an empty series
          THEN /\ chart_pc' = "raised"
               /\ chart_raised' = "ValueError"
               /\ UNCHANGED <<scatter, xlabel, ylabel, rmse>>
        ELSE IF kde /\ collinear(obs, prd)
          THEN /\ chart_pc' = "raised"
               /\ chart_raised' = "LinAlgError"
               /\ UNCHANGED <<scatter, xlabel, ylabel, rmse>>
        ELSE \E idx \in Orders(Len(chart_df)) :
               LET xy == symbolize_series(obs, prd, kde, idx)
               IN /\ scatter' = draw(xy[1], xy[2]).scatter
                  /\ rmse' = draw(xy[1], xy[2]).rmse
                  /\ xlabel' = "Predicted"
                  /\ ylabel' = "Observed"
                  /\ chart_pc' = "drawn"
                  /\ chart_raised' = ""
  /\ UNCHANGED <<chart_df, kde>>
  /\ UNCHANGED ChartRest

ChartNext ==
  \/ ReadPairedRow
  \/ DrawScatterplot

\* ------------------------------------------------------------------------
\* Specifications: each machine runs with the others at rest
\* ------------------------------------------------------------------------
vars == <<em_vars, pair_vars, report_vars, fig_vars, chart_vars>>

EMIdle ==
  /\ em_pc = "idle"
  /\ formatter = ""
  /\ attr_codes = <<>>
  /\ fuzzy_classes = <<>>
  /\ error_matrix_df = <<>>
  /\ arr = <<>>
  /\ xwalk = <<>>
  /\ classifiers = <<>>
  /\ em_raised = ""
  /\ fuzzy_cells = <<>>
  /\ ts = <<>>

PairIdle ==
  /\ pair_pc = "idle"
  /\ obs_df = EmptyFrame({})
  /\ prd_df = EmptyFrame({})
  /\ attr_fields = StrArg("")
  /\ merged_df = EmptyFrame({})
  /\ pair_raised = ""
  /\ pair_check = ""

ReportIdle ==
  /\ rep_pc = "idle"
  /\ command = ""
  /\ accuracy_assessment_report = ""
  /\ include_in_report = <<>>
  /\ missing_files = {}
  /\ aa_report = FALSE
  /\ todo = <<>>
  /\ formatters = <<>>
  /\ ran = <<>>
  /\ sub_stories = <<>>
  /\ story = <<>>
  /\ doc_built = FALSE
  /\ doc_story = <<>>
  /\ cleaned = <<>>
  /\ printed = <<>>
  /\ rep_raised = ""

FigIdle ==
  /\ fig_pc = "idle"
  /\ fig_formatter = ""
  /\ attr_list = <<>>
  /\ image_files = <<>>
  /\ disk = {}
  /\ pages = <<>>

ChartIdle ==
  /\ chart_pc = "idle"
  /\ chart_df = <<>>
  /\ kde = FALSE
  /\ scatter = <<>>
  /\ xlabel = ""
  /\ ylabel = ""
  /\ rmse = <<>>
  /\ chart_raised = ""

InitEM == EMInit /\ PairIdle /\ ReportIdle /\ FigIdle /\ ChartIdle
SpecEM == InitEM /\ [][EMNext]_vars

InitPair == PairInit /\ EMIdle /\ ReportIdle /\ FigIdle /\ ChartIdle
SpecPair == InitPair /\ [][PairNext]_vars

InitReport == ReportInit /\ EMIdle /\ PairIdle /\ FigIdle /\ ChartIdle
SpecReport == InitReport /\ [][ReportNext]_vars

InitFigures == FigInit /\ EMIdle /\ PairIdle /\ ReportIdle /\ ChartIdle
SpecFigures == InitFigures /\ [][FigNext]_vars

InitChart == ChartInit /\ EMIdle /\ PairIdle /\ ReportIdle /\ FigIdle
SpecChart == InitChart /\ [][ChartNext]_vars

\* ========================================================================
\* Properties of build_error_matrix
\* ========================================================================
N == n_bins
M(i, j) == error_matrix_df[<<i, j>>]
RowTotal(i) == SumOver([j \in Idx(N) |-> M(i, j)], Idx(N))
ColTotal(j) == SumOver([i \in Idx(N) |-> M(i, j)], Idx(N))
DiagTotal == SumOver([i \in Idx(N) |-> M(i, i)], Idx(N))
GrandTotal == SumOver([i \in Idx(N) |-> RowTotal(i)], Idx(N))

\* Where the table shows a class and a summary: the row (column) whose
\* label in column 1 (row 1) is the given one
RowLabelled(cell) == CHOOSE r \in 0 .. (N + 4) : arr[<<r, 1>>] = cell
ColLabelled(cell) == CHOOSE c \in 0 .. (N + 4) : arr[<<1, c>>] = cell
RowOfClass(i) == RowLabelled(LabelCell(attr_codes[i + 1]))
ColOfClass(j) == ColLabelled(LabelCell(attr_codes[j + 1]))
PctCorrectRow == RowLabelled(StrCell("% correct"))
PctCorrectCol == ColLabelled(StrCell("% correct"))
PctFuzzyRow == RowLabelled(StrCell("% fuzzy correct"))
PctFuzzyCol == ColLabelled(StrCell("% fuzzy correct"))

\* the cell holds the number num / den
IsRatio(cell, num, den) ==
  cell.kind = "float" /\ cell.num * den = num * cell.den

WindowMode ==
  \/ formatter = "AttributeAccuracyFormatter"
  \/ formatter = "CategoricalAccuracyFormatter" /\ Len(fuzzy_classes) = 0

\* C1: once the percent correct cells of a matrix with a positive grand
\* total are assigned, the '% correct' column of observed row i holds
\* 100*M[i][i]/(sum of row i), the '% correct' row under predicted column j
\* holds 100*M[j][j]/(sum of column j), and the corner '% correct' cell
\* holds 100*(sum of the diagonal)/(grand total), in both formatters.
C1_PercentCorrect ==
  (em_pc # "read" /\ GrandTotal > 0) =>
    /\ \A i \in Idx(N) :
         RowTotal(i) > 0 =>
           IsRatio(arr[<<RowOfClass(i), PctCorrectCol>>], 100 * M(i, i), RowTotal(i))
    /\ \A j \in Idx(N) :
         ColTotal(j) > 0 =>
           IsRatio(arr[<<PctCorrectRow, ColOfClass(j)>>], 100 * M(j, j), ColTotal(j))
    /\ IsRatio(arr[<<PctCorrectRow, PctCorrectCol>>], 100 * DiagTotal, GrandTotal)

\* C1 witness: a finished table of at least two classes in which a class
\* has hits and misses and its row and column totals differ
C1_Witness ==
  /\ em_pc = "done"
  /\ N >= 2
  /\ \E i \in Idx(N) :
       /\ M(i, i) > 0
       /\ RowTotal(i) > M(i, i)
       /\ ColTotal(i) # RowTotal(i)

\* C2: an observed row and a predicted column whose total is 0 hold 0 in
\* their '% correct' cell as soon as it is assigned and 0 in their
\* '% fuzzy correct' cell in the finished table, and build_error_matrix
\* raises no division error.
C2_ZeroTotals ==
  /\ em_raised # "ZeroDivisionError"
  /\ em_pc # "read" =>
       /\ \A i \in Idx(N) :
            RowTotal(i) = 0 => arr[<<RowOfClass(i), PctCorrectCol>>] = Zero
       /\ \A j \in Idx(N) :
            ColTotal(j) = 0 => arr[<<PctCorrectRow, ColOfClass(j)>>] = Zero
  /\ em_pc = "done" =>
       /\ \A i \in Idx(N) :
            RowTotal(i) = 0 => arr[<<RowOfClass(i), PctFuzzyCol>>] = Zero
       /\ \A j \in Idx(N) :
            ColTotal(j) = 0 => arr[<<PctFuzzyRow, ColOfClass(j)>>] = Zero

\* C2 witness: a finished table with records, an observed class without
\* any record and a predicted class without any record
C2_Witness ==
  /\ em_pc = "done"
  /\ GrandTotal > 0
  /\ \E i \in Idx(N) : RowTotal(i) = 0
  /\ \E j \in Idx(N) : ColTotal(j) = 0

\* the classes within one position of class i
Neighbours(i) == {i - 1, i, i + 1} \cap Idx(N)

\* C3: under the fixed +/-1 window and with at least two classes the
\* table is finished, the list given for class i is {i-1, i, i+1} within
\* 0..N-1, the '% fuzzy correct' of observed row i is 100 * (sum of M[i][j]
\* over that set) / (row total) and that of predicted column i is
\* 100 * (sum of M[j][i] over that set) / (column total).
C3_WindowFuzzy ==
  (WindowMode /\ N >= 2 /\ em_pc # "read") =>
    /\ em_pc = "done"
    /\ \A i \in Idx(N) :
         /\ RangeOf(fuzzy_classification(classifiers, i)) = Neighbours(i)
         /\ RowTotal(i) > 0 =>
              IsRatio(arr[<<RowOfClass(i), PctFuzzyCol>>],
                      100 * SumOver([j \in Idx(N) |-> M(i, j)], Neighbours(i)),
                      RowTotal(i))
         /\ ColTotal(i) > 0 =>
              IsRatio(arr[<<PctFuzzyRow, ColOfClass(i)>>],
                      100 * SumOver([j \in Idx(N) |-> M(j, i)], Neighbours(i)),
                      ColTotal(i))

\* C3 witness: a finished table under the window with an inner class whose
\* row has a record in a neighbouring class and one two classes away
C3_Witness ==
  /\ em_pc = "done"
  /\ WindowMode
  /\ N >= 3
  /\ M(0, 1) > 0
  /\ M(0, 2) > 0
  /\ M(1, 2) > 0

\* every code of the attribute declares fuzzy classes and every fuzzy class
\* is a code of the attribute
FullyDeclared ==
  /\ original_codes(fuzzy_classes) = RangeOf(attr_codes)
  /\ \A k \in 1 .. Len(fuzzy_classes) :
       fuzzy_classes[k].fuzzy_class \in RangeOf(attr_codes)

\* rank of a code among the declared codes, in ascending code order
RankOf(c) == Cardinality({ d \in original_codes(fuzzy_classes) : d < c })

\* the matrix positions of the fuzzy classes declared for the code shown
\* in row / column i
DeclaredPositions(i) ==
  { p \in Idx(N) :
      \E k \in 1 .. Len(fuzzy_classes) :
         fuzzy_classes[k] = FuzzyClass(attr_codes[i + 1], attr_codes[p + 1]) }

\* C4 (as claimed): for a categorical attribute whose codes all declare
\* fuzzy classes, the lookup maps each declared code to its rank in
\* ascending code order, every matrix position has an adjacency set, and
\* that set is the set of positions of the fuzzy classes declared for the
\* code shown at that position.
C4_DeclaredAdjacency ==
  (/\ formatter = "CategoricalAccuracyFormatter"
   /\ Len(fuzzy_classes) > 0
   /\ FullyDeclared
   /\ em_pc # "read") =>
    /\ em_pc = "done"
    /\ \A c \in original_codes(fuzzy_classes) : xwalk[c] = RankOf(c)
    /\ \A i \in Idx(N) :
         /\ i \in DOMAIN classifiers
         /\ RangeOf(fuzzy_classification(classifiers, i)) = DeclaredPositions(i)

\* the colour of the table cell showing observed position r and predicted
\* position c (array row r + 2, array column c + 2)
Shade(r, c) == background(ts, c + 2, r + 2, N + 5)

\* the count of (observed r, predicted c) is part of the fuzzy correct
\* count of observed row r / of predicted column c, as the loop summed them
InRowFuzzy(r, c) == c \in RangeOf(fuzzy_classification(classifiers, r))
InColFuzzy(r, c) == r \in RangeOf(fuzzy_classification(classifiers, c))

\* C11 (as claimed): in the finished table the dark gray class cells are
\* exactly the diagonal cells; an off-diagonal class cell (observed r,
\* predicted c) is light gray if and only if its count is part of the
\* fuzzy correct count of observed row r and of predicted column c; no
\* cell of the Total row or Total column is shaded.
C11_ShadingMatchesFuzzy ==
  em_pc = "done" =>
    /\ \A r, c \in Idx(N) :
         /\ (Shade(r, c) = DarkGray) <=> (r = c)
         /\ r # c =>
              ((Shade(r, c) = LightGray) <=> (InRowFuzzy(r, c) /\ InColFuzzy(r, c)))
    /\ \A k \in 0 .. (N + 4) :
         /\ background(ts, k, N + 2, N + 5) = ""
         /\ background(ts, N + 2, k, N + 5) = ""

\* C11 restricted to the fixed window (both formatters)
C11_WindowShading == WindowMode => C11_ShadingMatchesFuzzy

\* the adjacency set of the class shown at position i: its window, or the
\* positions of the fuzzy classes declared for its code
AdjacencySet(i) == IF WindowMode THEN Neighbours(i) ELSE DeclaredPositions(i)
\* the positions the fuzzy loop summed over for position i
ListedSet(i) == RangeOf(fuzzy_classification(classifiers, i))

FuzzyCount(Adj(_)) ==
  SumOver([i \in Idx(N) |-> SumOver([j \in Idx(N) |-> M(i, j)], Adj(i))], Idx(N))
Incorrect(Adj(_)) ==
  SumOver([i \in Idx(N) |->
             RowTotal(i) - SumOver([j \in Idx(N) |-> M(i, j)], Adj(i))],
          Idx(N))
OverallFuzzyCell == arr[<<PctFuzzyRow, PctFuzzyCol>>]

\* C15 (as claimed): in a finished table with a positive grand total the
\* overall '% fuzzy correct' cell is 100 * (sum of M[i][j] over the cells
\* with j in the adjacency set of observed class i) / (grand total), which
\* is 100 * (grand total - incorrect) / (grand total), incorrect being the
\* sum over the observed rows of row total minus row fuzzy correct count.
C15_OverallFuzzy ==
  (em_pc = "done" /\ GrandTotal > 0 /\ (WindowMode \/ FullyDeclared)) =>
    /\ IsRatio(OverallFuzzyCell, 100 * FuzzyCount(AdjacencySet), GrandTotal)
    /\ IsRatio(OverallFuzzyCell,
               100 * (GrandTotal - Incorrect(AdjacencySet)), GrandTotal)

\* the lookup gave every declared code its ascending rank
XwalkInOrder ==
  WindowMode \/ \A c \in original_codes(fuzzy_classes) : xwalk[c] = RankOf(c)

\* C15 for the attributes whose lookup is in ascending order
OverallFuzzyInOrder == (em_pc = "done" /\ XwalkInOrder) => C15_OverallFuzzy

\* the same over the lists the loop used, whatever they were built from
OverallFuzzyOfLists ==
  (em_pc = "done" /\ GrandTotal > 0) =>
    /\ IsRatio(OverallFuzzyCell, 100 * FuzzyCount(ListedSet), GrandTotal)
    /\ IsRatio(OverallFuzzyCell,
               100 * (GrandTotal - Incorrect(ListedSet)), GrandTotal)

\* C16 (as claimed): with a single class under the fixed window,
\* build_error_matrix finishes without an index error, the list of the
\* only class is the class itself, its '% fuzzy correct' cells equal its
\* '% correct' cells, and nothing but the class cell is shaded among the
\* counts and totals.
C16_SingleClass ==
  (WindowMode /\ N = 1 /\ em_pc # "read") =>
    /\ em_raised # "IndexError"
    /\ em_pc = "done"
    /\ ListedSet(0) = {0}
    /\ arr[<<RowOfClass(0), PctFuzzyCol>>] = arr[<<RowOfClass(0), PctCorrectCol>>]
    /\ arr[<<PctFuzzyRow, ColOfClass(0)>>] = arr[<<PctCorrectRow, ColOfClass(0)>>]
    /\ \A r, c \in 0 .. 1 :
         <<r, c>> # <<0, 0>> => Shade(r, c) # LightGray

\* a float cell that is a number
IsNumber(cell) == cell.kind = "float"
HasNaN == \E rc \in DOMAIN arr : arr[rc].kind = "nan"

\* C17 (as claimed): with a grand total of 0 the overall '% correct' cell
\* is 0 as soon as it is assigned, the overall '% fuzzy correct' cell is 0
\* in the finished table, no cell is not-a-number and no division error is
\* raised.
C17_NoRecords ==
  (em_pc # "read" /\ GrandTotal = 0) =>
    /\ em_raised # "ZeroDivisionError"
    /\ arr[<<PctCorrectRow, PctCorrectCol>>] = Zero
    /\ ~HasNaN
    /\ em_pc = "done" => OverallFuzzyCell = Zero

\* a >= b for two float cells
AtLeast(a, b) ==
  /\ IsNumber(a)
  /\ IsNumber(b)
  /\ a.num * b.den >= b.num * a.den

\* C18 (as claimed): in a finished table percent fuzzy correct is at least
\* percent correct for every observed row, every predicted column and, the
\* grand total being positive, the overall cell, under the window and
\* under any declared adjacency list.
C18_FuzzyAtLeastCorrect ==
  em_pc = "done" =>
    /\ \A i \in Idx(N) :
         /\ AtLeast(arr[<<RowOfClass(i), PctFuzzyCol>>],
                    arr[<<RowOfClass(i), PctCorrectCol>>])
         /\ AtLeast(arr[<<PctFuzzyRow, ColOfClass(i)>>],
                    arr[<<PctCorrectRow, ColOfClass(i)>>])
    /\ GrandTotal > 0 =>
         AtLeast(OverallFuzzyCell, arr[<<PctCorrectRow, PctCorrectCol>>])

\* every position's list holds the position itself
ListsHoldSelf == \A i \in Idx(N) : i \in ListedSet(i)

\* C18 where every class counts itself as fuzzy correct
FuzzyAtLeastCorrectWithSelf == (em_pc = "done" /\ ListsHoldSelf) => C18_FuzzyAtLeastCorrect

\* ========================================================================
\* Properties of build_paired_dataframe
\* ========================================================================
Requested ==
  IF attr_fields.type = "list" THEN RangeOf(attr_fields.items)
  ELSE {attr_fields.items[1]}
PairCalled == pair_pc \in {"returned", "raised"}
MissingColumn ==
  \E c \in {join_field} \cup Requested : c \notin obs_df.columns \/ c \notin prd_df.columns
HasNull(df, a) == \E k \in 1 .. Len(df.rows) : df.rows[k][a] = NULL
NullValue == \E a \in Requested : HasNull(obs_df, a) \/ HasNull(prd_df, a)

\* C7: build_paired_dataframe raises NameError, from the column check,
\* when join_field or a requested attribute is missing from either frame,
\* even if a requested attribute has a null; it raises ValueError, from the
\* value check and so before the merge, when the columns are there and a
\* requested attribute has a null in either frame; no merged frame is
\* returned in those cases.
C7_ChecksBeforeMerge ==
  PairCalled =>
    /\ MissingColumn =>
         /\ pair_pc = "raised"
         /\ pair_raised = "NameError"
         /\ pair_check = "columns"
    /\ (~MissingColumn /\ NullValue) =>
         /\ pair_pc = "raised"
         /\ pair_raised = "ValueError"
         /\ pair_check = "values"
    /\ pair_pc = "raised" => merged_df = EmptyFrame({})

\* C7 witness: the call raised NameError for a missing column although a
\* requested attribute of the observed frame holds a null
C7_Witness ==
  /\ pair_pc = "raised"
  /\ pair_raised = "NameError"
  /\ "B" \notin prd_df.columns
  /\ \E k \in 1 .. Len(obs_df.rows) : obs_df.rows[k]["A"] = NULL

\* the pairs (observed row, predicted row) of the same ID
SameId ==
  { ij \in (1 .. Len(obs_df.rows)) \X (1 .. Len(prd_df.rows)) :
      obs_df.rows[ij[1]][join_field] = prd_df.rows[ij[2]][join_field] }
PairedColumns ==
  {Col(join_field, "")} \cup { Col(a, sfx) : a \in Requested, sfx \in {"_O", "_P"} }
\* the joined row of an observed and a predicted row
Paired(i, j) ==
  [mc \in PairedColumns |->
     IF mc[2] = "_O" THEN obs_df.rows[i][mc[1]]
     ELSE IF mc[2] = "_P" THEN prd_df.rows[j][mc[1]]
     ELSE obs_df.rows[i][join_field]]

\* C8: when the columns are there and no requested attribute has a null,
\* build_paired_dataframe raises ValueError if the number of pairs of rows
\* of the same ID is neither the observed nor the predicted row count, and
\* otherwise returns exactly those pairs, one row each, with the ID, each
\* requested attribute's observed value as <attr>_O and its predicted value
\* as <attr>_P.
C8_InnerJoin ==
  (PairCalled /\ ~MissingColumn /\ ~NullValue) =>
    IF Cardinality(SameId) \notin {Len(obs_df.rows), Len(prd_df.rows)}
      THEN /\ pair_pc = "raised"
           /\ pair_raised = "ValueError"
           /\ pair_check = "length"
      ELSE /\ pair_pc = "returned"
           /\ merged_df.columns = PairedColumns
           /\ Len(merged_df.rows) = Cardinality(SameId)
           /\ \A ij \in SameId :
                \E k \in 1 .. Len(merged_df.rows) :
                   merged_df.rows[k] = Paired(ij[1], ij[2])
           /\ \A k \in 1 .. Len(merged_df.rows) :
                \E ij \in SameId : merged_df.rows[k] = Paired(ij[1], ij[2])

\* C8 witness: a returned frame of two rows, one of them with an observed
\* value that differs from the predicted one
C8_Witness ==
  /\ pair_pc = "returned"
  /\ Len(merged_df.rows) >= 2
  /\ \E k \in 1 .. Len(merged_df.rows) :
       merged_df.rows[k][Col("A", "_O")] # merged_df.rows[k][Col("A", "_P")]


\* ------------------------------------------------------------------------
\* Properties of the report commands
\* ------------------------------------------------------------------------
IsPrefix(a, b) ==
  /\ Len(a) <= Len(b)
  /\ \A k \in 1 .. Len(a) : a[k] = b[k]

\* the sub-stories one after the other, a None contributing nothing
RECURSIVE Concatenation(_)
Concatenation(ss) ==
  IF ss = <<>> THEN <<>>
  ELSE LET front == SubSeq(ss, 1, Len(ss) - 1)
           last == ss[Len(ss)]
       IN Concatenation(front) \o (IF last.none THEN <<>> ELSE last.items)

FixedOrder ==
  <<"IntroductionFormatter", "AttributeAccuracyFormatter",
    "CategoricalAccuracyFormatter", "SpeciesAccuracyFormatter",
    "DataDictionaryFormatter", "ReferencesFormatter">>

\* C5: in the current report run_formatter is called once per formatter in
\* the order Introduction, AttributeAccuracy, CategoricalAccuracy,
\* SpeciesAccuracy, DataDictionary, References (the calls made so far are
\* always a prefix of that order, and all six are made before the document
\* is built); the story handed to the document builder is the
\* concatenation of the returned sub-stories in that order, a None adding
\* nothing.
C5_FixedOrderStory ==
  command = "report" =>
    /\ IsPrefix(ran, FixedOrder)
    /\ story = Concatenation(sub_stories)
    /\ (rep_pc \in {"build", "cleanup", "done"} /\ aa_report) =>
         /\ ran = FixedOrder
         /\ Len(sub_stories) = Len(FixedOrder)
    /\ doc_built =>
         /\ ran = FixedOrder
         /\ Len(sub_stories) = Len(FixedOrder)
         /\ doc_story = Concatenation(sub_stories)

C5_Witness ==
  /\ command = "report"
  /\ doc_built
  /\ \E k \in 1 .. Len(sub_stories) : sub_stories[k].none
  /\ \E k \in 1 .. Len(sub_stories) : ~sub_stories[k].none
  /\ Len(doc_story) > 0

\* C6: both commands create the report exactly when
\* accuracy_assessment_report is non-empty; with an empty value they return
\* having constructed no formatter, run none and written no document, and
\* with a non-empty value the current report that returns has written it.
C6_ReportIffRequested ==
  rep_pc # "idle" =>
    /\ rep_pc # "cli" => (aa_report <=> accuracy_assessment_report # "")
    /\ accuracy_assessment_report = "" =>
         /\ rep_pc \in {"cli", "done"}
         /\ todo = <<>> /\ formatters = <<>> /\ ran = <<>>
         /\ printed = <<>> /\ cleaned = <<>>
         /\ ~doc_built
    /\ (command = "report" /\ rep_pc = "done"
        /\ accuracy_assessment_report # "") => doc_built

C6_Witness ==
  /\ rep_pc = "done"
  /\ command = "old-report"
  /\ accuracy_assessment_report = ""
  /\ include_in_report # <<>>

\* the order the old report plans its formatters in
PlannedOrder ==
  <<"IntroductionFormatter">>
  \o [k \in 1 .. Len(include_in_report) |->
        IF include_in_report[k] = "local_accuracy" THEN "LocalAccuracyFormatter"
        ELSE IF include_in_report[k] = "species_accuracy"
          THEN "SpeciesAccuracyFormatter"
        ELSE "VegetationClassFormatter"]
  \o <<"DataDictionaryFormatter", "ReferencesFormatter">>

RaisesMissingConstraint(f) == construct(f, missing_files) = "MissingConstraintError"
NotRaisesMissingConstraint(f) == ~RaisesMissingConstraint(f)

MissingRequired(f) == required(f) \cap missing_files # {}
HasRequired(f) == ~MissingRequired(f)

\* C10: in the current report, when the only failures are missing required
\* files (the formatters that call check_missing_files), those formatters
\* are skipped and the report is still built from the sub-stories of the
\* remaining ones.
C10_SkipsAndBuilds ==
  (/\ command = "report"
   /\ aa_report
   /\ "error_matrix_accuracy_file" \notin missing_files
   /\ \E k \in 1 .. Len(FixedOrder) : MissingRequired(FixedOrder[k])
   /\ rep_pc \in {"done", "aborted"}
   /\ rep_raised # "Exception")
  => /\ rep_pc = "done"
     /\ doc_built
     /\ formatters = SelectSeq(FixedOrder, HasRequired)
     /\ doc_story = Concatenation(sub_stories)


\* C12: in the current report clean_up is called once per formatter (the
\* calls made so far are a prefix of the list of formatters, whose classes
\* are all different), only after every run_formatter has returned and the
\* document has been built from the complete story, and for every
\* formatter by the time the command returns.
C12_CleanUpAfterBuild ==
  (command = "report" /\ aa_report) =>
    /\ IsPrefix(cleaned, formatters)
    /\ \A i, j \in 1 .. Len(cleaned) : i # j => cleaned[i] # cleaned[j]
    /\ cleaned # <<>> =>
         /\ doc_built
         /\ ran = formatters
         /\ Len(sub_stories) = Len(formatters)
         /\ doc_story = Concatenation(sub_stories)
    /\ rep_pc = "done" => cleaned = formatters /\ Len(cleaned) = 6

C12_Witness ==
  /\ command = "report"
  /\ rep_pc = "cleanup"
  /\ Len(cleaned) = 2
  /\ doc_built
  /\ Len(doc_story) > 0


\* ========================================================================
\* Properties of the figures and pages
\* ========================================================================
\* the image files the page of an attribute is to show
Scatter(attr) == <<"", lower(attr), ".png">>
Histogram(attr) == <<"", lower(attr), "_area.png">>
Hexagons(attr) ==
  {<<"hex_10_", lower(attr), ".png">>, <<"hex_30_", lower(attr), ".png">>,
   <<"hex_50_", lower(attr), ".png">>}
ExpectedImages(attr) ==
  IF fig_formatter = "AttributeAccuracyFormatter"
    THEN {Scatter(attr), Histogram(attr)} \cup Hexagons(attr)
    ELSE {Histogram(attr)}
UsedByPages == UNION { RangeOf(pages[k].images) : k \in 1 .. Len(pages) }

\* the state part of C13
PagesUseCreatedImages ==
  fig_pc # "idle" =>
    /\ \A k \in 1 .. Len(pages) :
         RangeOf(pages[k].images) = ExpectedImages(pages[k].attr)
    /\ pages # <<>> =>
         \A k \in 1 .. Len(attr_list) :
            /\ ExpectedImages(attr_list[k]) \subseteq RangeOf(image_files)
            /\ fig_pc # "cleaned" => ExpectedImages(attr_list[k]) \subseteq disk
    /\ fig_pc \in {"returned", "cleaned"} =>
         /\ Len(pages) = Len(attr_list)
         /\ RangeOf(image_files) = UsedByPages
    /\ fig_pc = "cleaned" => disk \cap UsedByPages = {}

\* clean_up takes the files the pages used, and only them, off the disk
CleanUpRemovesUsed ==
  (fig_pc = "returned" /\ fig_pc' = "cleaned") => disk' = disk \ UsedByPages

\* C13: every page refers to the images of its attribute (scatterplot,
\* histogram and the three hexagon scatterplots for the continuous
\* formatter, the histogram for the categorical one); when the first page
\* is built the images of all attributes are on disk and in image_files;
\* when run_formatter returns, image_files holds exactly the files the
\* pages use, and clean_up removes those files and no other.
C13_PagesUseCreatedImages ==
  []PagesUseCreatedImages /\ [][CleanUpRemovesUsed]_vars

C13_Witness ==
  /\ fig_pc = "cleaned"
  /\ fig_formatter = "AttributeAccuracyFormatter"
  /\ Len(pages) = 2
  /\ disk = {OtherFile}


\* ========================================================================
\* Properties of draw_scatterplot
\* ========================================================================
\* how many members of a sequence satisfy a test
Count(seq, Test(_)) == Cardinality({ k \in DOMAIN seq : Test(seq[k]) })

\* C14: a drawn scatterplot has one point per row of the paired frame,
\* with the predicted value as X and the observed value as Y, the axes
\* labelled accordingly, and its 'Normalized RMSE' is the RMSE of the
\* pairs over the mean of the observed values.
C14_PredictedXObservedY ==
  chart_pc = "drawn" =>
    /\ Len(scatter) = Len(chart_df)
    /\ \A o, p \in 0 .. MaxValue :
         LET IsPoint(pt) == pt = [X |-> p, Y |-> o]
             IsRow(row) == row = [O |-> o, P |-> p]
         IN Count(scatter, IsPoint) = Count(chart_df, IsRow)
    /\ xlabel = "Predicted" /\ ylabel = "Observed"
    /\ rmse.n = Len(chart_df)
    /\ rmse.sse = SumSeq([k \in DOMAIN chart_df |->
                            (chart_df[k].O - chart_df[k].P) * (chart_df[k].O - chart_df[k].P)])
    /\ rmse.mean_of = SumSeq([k \in DOMAIN chart_df |-> chart_df[k].O])

C14_Witness ==
  /\ chart_pc = "drawn"
  /\ kde
  /\ Len(chart_df) = 3
  /\ rmse.sse > 0
  /\ rmse.mean_of # SumSeq([k \in DOMAIN chart_df |-> chart_df[k].P])
  /\ \E k \in DOMAIN scatter : scatter[k].X # scatter[k].Y

====
